---- MODULE Spec2Model ----
(***************************************************************************)
(* A model of mpnum's MPPovm (src/mpnum/povm/mppovm.py): sampling from a   *)
(* probability chain (sample, _sample_cond, _sample_cond_single,           *)
(* _sample_direct, count_samples), the lazy expectations() generator and   *)
(* find_matching_elements.                                                 *)
(*                                                                         *)
(* Numbers.  Probabilities are exact rationals <<num, den>> (den > 0, in   *)
(* lowest terms); a probability chain is given by its dense array of       *)
(* integer weights, the probability of an outcome tuple being              *)
(* weight / Units.  The tolerance eps of the code is 1 / Units, so that a  *)
(* weight of -1 is "negative within eps".  Imaginary parts are zero.       *)
(* Outcome tuples are sequences (position 1 = first site) of 0-based       *)
(* outcome indices, as in the code.                                        *)
(***************************************************************************)
EXTENDS Integers, Sequences, FiniteSets, TLC

VARIABLES
    pc,          \* position of the running call
    err,         \* "none", or the exception that ended the call
    outdims,     \* MPPovm.outdims of self
    probab,      \* the pruned probability chain, as dense weights
    method,      \* sample(): method
    n_samples,   \* sample(): n_samples
    n_group,     \* sample(): n_group
    out,         \* sample(): the uint8 batch, a sequence of rows
    marginal_p,  \* _sample_cond: the list marginal_p, or None
    builds,      \* history: how often marginal_p has been built
    drawn,       \* history: samples completed by _sample_cond_single
    i,           \* _sample_cond: loop index over samples
    n_out,       \* _sample_cond_single: loop variable n_out
    out_p,       \* _sample_cond_single: out_p
    samples,     \* count_samples(): its argument
    counts,      \* count_samples(): its result, or None
    attempts,    \* history: calls of sample() made by the caller
    len_self,    \* expectations(): len(self)
    plegs,       \* expectations(): mpa.plegs, the physical legs per site
    mode,        \* expectations(): the argument mode
    gen_pc,      \* the generator: "none", "created", "suspended", "done"
    gen_mode,    \* the generator's local `mode` once its body has run
    gen_pos,     \* the generator: reductions consumed by its for loop
    gen_err,     \* the exception the generator raised, or NoError
    yielded,     \* history: the probability chains delivered so far
    extra,       \* history: next() calls on the finished generator
    m_pc,        \* find_matching_elements: position of the call
    m_err,       \* find_matching_elements: the exception raised, or NoError
    self,        \* find_matching_elements: the chain self
    other0,      \* history: the argument other
    other,       \* the local `other`: the argument, then its projection
    inner,       \* the array inner
    snormsq,     \* the array snormsq
    onormsq,     \* the array onormsq
    match,       \* the array match
    prefactors,  \* the array prefactors
    sites,       \* the array sites
    test,        \* mparray_test: the test function that runs
    t_pc,        \* mparray_test: position in the test function
    t_fail,      \* mparray_test: the assertion that failed, or "none"
    nr_sites,    \* test parameter nr_sites
    local_dim,   \* test parameter local_dim
    bond_dim,    \* test parameter bond_dim
    summand,     \* test_compression_svd: the chain added to mpo
    mpo,         \* the chain under test (mpo, mpo_new)
    site,        \* loop variable site; center in test_jump_normalization
    comp_err     \* test_compression_svd: err, the value compress returned

sampleVars == <<pc, err, outdims, probab, method, n_samples, n_group, out,
                marginal_p, builds, drawn, i, n_out, out_p, samples, counts,
                attempts>>

expVars == <<len_self, plegs, mode, gen_pc, gen_mode, gen_pos, gen_err,
             yielded, extra>>

matchVars == <<m_pc, m_err, self, other0, other, inner, snormsq, onormsq,
               match, prefactors, sites>>

chainVars == <<test, t_pc, t_fail, nr_sites, local_dim, bond_dim, summand,
               mpo, site, comp_err>>

vars == <<sampleVars, expVars, matchVars, chainVars>>

-----------------------------------------------------------------------------
(* Bounds of the model *)

MaxSites == 3
MaxDim == 3
MaxCells == 8
MaxSamples == 2
MaxGroup == 3
Units == 2
MaxAttempts == 2

(* Program constants *)

Unfilled == 255
MaxOutcomeDim == 255
UInt8Mod == 256

\* Python's None, and an array that has not been allocated
None == <<>>
\* no cell of an array
NoCell == <<-1>>
\* no exception
NoError == [type |-> "none", check |-> "none"]

-----------------------------------------------------------------------------
(* Exact rational arithmetic *)

Abs(x) == IF x < 0 THEN -x ELSE x

RECURSIVE GCD(_, _)
GCD(a, b) == IF b = 0 THEN a ELSE GCD(b, a % b)

Rat(n, d) ==
    LET s == IF d < 0 THEN -1 ELSE 1
        g == GCD(Abs(n), Abs(d))
    IN  IF g = 0 THEN <<0, 1>> ELSE <<(s * n) \div g, (s * d) \div g>>

RMul(a, b) == Rat(a[1] * b[1], a[2] * b[2])
RDiv(a, b) == Rat(a[1] * b[2], a[2] * b[1])
RSub(a, b) == Rat(a[1] * b[2] - b[1] * a[2], a[2] * b[2])
RAbs(a) == <<Abs(a[1]), a[2]>>
RLe(a, b) == a[1] * b[2] <= b[1] * a[2]
RLt(a, b) == a[1] * b[2] < b[1] * a[2]
ROne == <<1, 1>>
RZero == <<0, 1>>

\* eps, the tolerance parameter of sample() and count_samples()
Eps == Rat(1, Units)

\* the probability carried by an integer weight
Prob(w) == Rat(w, Units)

-----------------------------------------------------------------------------
(* Shapes and index arithmetic *)

Front(s) == SubSeq(s, 1, Len(s) - 1)
Take(s, k) == SubSeq(s, 1, k)
Drop(s, k) == SubSeq(s, k + 1, Len(s))
Min(a, b) == IF a < b THEN a ELSE b

RECURSIVE SeqProd(_)
SeqProd(s) == IF s = <<>> THEN 1 ELSE s[1] * SeqProd(Tail(s))

RECURSIVE SelectDims(_)
SelectDims(s) ==
    IF s = <<>> THEN <<>>
    ELSE (IF s[1] > 1 THEN <<s[1]>> ELSE <<>>) \o SelectDims(Tail(s))

\* MPPovm.nsoutdims
nsoutdims(dims) == SelectDims(dims)

\* np.ravel_multi_index in C order: the position of tuple t in array.flat
RECURSIVE Ravel(_, _)
Ravel(t, shape) ==
    IF t = <<>> THEN 0
    ELSE t[1] * SeqProd(Tail(shape)) + Ravel(Tail(t), Tail(shape))

\* np.unravel_index(c, shape)
RECURSIVE Unravel(_, _)
Unravel(c, shape) ==
    IF shape = <<>> THEN <<>>
    ELSE <<c \div SeqProd(Tail(shape))>>
             \o Unravel(c % SeqProd(Tail(shape)), Tail(shape))

\* The outcomes of one site that the model gives weight to: all of them on
\* a small site, the first and the last on a large one.
Vals(d) == IF d <= MaxDim THEN 0 .. (d - 1) ELSE {0, d - 1}

\* The index tuples of an array of the given shape that may carry weight.
RECURSIVE Cells(_)
Cells(shape) ==
    IF shape = <<>> THEN {<<>>}
    ELSE {Append(t, v) : t \in Cells(Front(shape)), v \in Vals(shape[Len(shape)])}

\* storing a value into the uint8 batch
ToUInt8(v) == v % UInt8Mod

\* The full index space of an array of the given shape (np.ndindex)
RECURSIVE AllIndex(_)
AllIndex(shape) ==
    IF shape = <<>> THEN {<<>>}
    ELSE {Append(t, v) : t \in AllIndex(Front(shape)),
                         v \in 0 .. (shape[Len(shape)] - 1)}

\* array[t], zero where the model's sparse array has no cell
At(f, t) == IF t \in DOMAIN f THEN f[t] ELSE 0

RECURSIVE SetSum(_, _)
SetSum(f, S) ==
    IF S = {} THEN 0
    ELSE LET x == CHOOSE x \in S : TRUE IN f[x] + SetSum(f, S \ {x})

RAdd(a, b) == Rat(a[1] * b[2] + b[1] * a[2], a[2] * b[2])

RECURSIVE RSetSum(_, _)
RSetSum(f, S) ==
    IF S = {} THEN RZero
    ELSE LET x == CHOOSE x \in S : TRUE IN RAdd(f[x], RSetSum(f, S \ {x}))

-----------------------------------------------------------------------------
(* Inputs of sample() *)

\* Measurement chains: up to MaxSites sites of small outcome dimension, at
\* least one of them not a singleton, and a few chains with a large site.
SmallChains ==
    {d \in UNION {[1 .. n -> 1 .. MaxDim] : n \in 1 .. MaxSites} :
        /\ nsoutdims(d) # <<>>
        /\ Len(d) - Len(nsoutdims(d)) <= 1
        /\ SeqProd(d) <= MaxCells}

LargeChains ==
    {<<MaxOutcomeDim>>, <<1, MaxOutcomeDim>>, <<MaxOutcomeDim + 1>>,
     <<2, MaxOutcomeDim + 1>>}

Chains == SmallChains \cup LargeChains

\* Weights of a probability chain of shape `shape`: `u` places units of
\* probability 1/Units on cells, `neg` (a cell or NoCell) takes one away.
Weights(shape, u, neg) ==
    [t \in Cells(shape) |->
        Cardinality({k \in DOMAIN u : u[k] = t}) - (IF t = neg THEN 1 ELSE 0)]

ProbabChains(shape) ==
    {Weights(shape, u, neg) :
        u \in UNION {[1 .. n -> Cells(shape)] : n \in {Units - 1, Units}},
        neg \in Cells(shape) \cup {NoCell}}

Methods == {"cond", "direct", "rejection"}

\* A batch the caller built itself, for count_samples(): entries may lie
\* outside the outcome range.
RECURSIVE RowsOver(_)
RowsOver(shape) ==
    IF shape = <<>> THEN {<<>>}
    ELSE {Append(t, v) : t \in RowsOver(Front(shape)),
                         v \in Vals(shape[Len(shape)]) \cup {shape[Len(shape)]}}

ForeignBatches(shape) ==
    UNION {[1 .. n -> RowsOver(shape)] : n \in 0 .. MaxSamples}

-----------------------------------------------------------------------------
(* _sample_cond: the nested marginals *)

\* SumLast taking the first outcome of the last site instead of the sum
SumLast_First(p, shape) ==
    [t \in Cells(Front(shape)) |-> p[Append(t, 0)]]

\* p.sum([()] * n_sites + [(0,)]): sum over the outcomes of the last site
SumLast(p, shape) ==
    [t \in Cells(Front(shape)) |->
        SetSum([v \in Vals(shape[Len(shape)]) |-> p[Append(t, v)]],
               Vals(shape[Len(shape)]))]

\* marginal_p[k] after the loop `for n_sites in reversed(range(len(probab)))`
RECURSIVE Marginal(_, _, _)
Marginal(pr, shape, k) ==
    IF k = Len(shape) THEN pr
    ELSE SumLast(Marginal(pr, shape, k + 1), Take(shape, k + 1))

MarginalFamily(pr, shape) == [k \in 0 .. Len(shape) |-> Marginal(pr, shape, k)]

-----------------------------------------------------------------------------
(* _sample_cond_single: one pass of the loop over n_out *)

\* p = marginal_p[min(n_sites, n_out + n_group)]
StepEnd(n_sites, nout, ngroup) == Min(n_sites, nout + ngroup)

\* the shape of p after indexing with tuple(out[:n_out]) and pruning
StepShape(shape, nout, ngroup) ==
    SubSeq(shape, nout + 1, StepEnd(Len(shape), nout, ngroup))

\* p = p[tuple(out[:n_out]) + (slice(None),) * ...]; p = p.to_array() / out_p
CondP(marg, shape, row, nout, ngroup, outp) ==
    [s \in Cells(StepShape(shape, nout, ngroup)) |->
        RDiv(Prob(At(marg[StepEnd(Len(shape), nout, ngroup)],
                     Take(row, nout) \o s)),
             outp)]

\* p[p < 0] = 0.0
Clamp(p) == [s \in DOMAIN p |-> IF RLt(p[s], RZero) THEN RZero ELSE p[s]]

\* assert (p >= -eps).all()
NonNegWithinEps(p) == \A s \in DOMAIN p : RLe(RSub(RZero, Eps), p[s])

\* assert abs(p.sum() - 1.0) <= eps
SumsToOne(p) == RLe(RAbs(RSub(RSetSum(p, DOMAIN p), ROne)), Eps)

\* p.flat[c]
Flat(p, shape, c) ==
    IF Unravel(c, shape) \in DOMAIN p THEN p[Unravel(c, shape)] ELSE RZero

\* Choices with the indices of probability zero among them
Choices_WithZero(p, shape) ==
    {c \in 0 .. (SeqProd(shape) - 1) :
        Unravel(c, shape) \in DOMAIN p /\ RLe(RZero, Flat(p, shape, c))}

\* rng.choice(p.size, p=p.flat): the indices it can return
Choices(p, shape) ==
    {c \in 0 .. (SeqProd(shape) - 1) : RLt(RZero, Flat(p, shape, c))}

\* WriteSlice writing the block at the start of the row
WriteSlice_FromStart(row, nout, shape, c) ==
    [j \in DOMAIN row |->
        IF j <= Len(shape) THEN ToUInt8(Unravel(c, shape)[j]) ELSE row[j]]

\* out[n_out:n_out + n_group] = np.unravel_index(choice, p.shape)
WriteSlice(row, nout, shape, c) ==
    [j \in DOMAIN row |->
        IF j > nout /\ j <= nout + Len(shape)
        THEN ToUInt8(Unravel(c, shape)[j - nout])
        ELSE row[j]]

\* NextOutP with `=` in place of `*=`
NextOutP_Assign(outp, pchoice) == pchoice

\* out_p *= np.prod(p.flat[choice])
NextOutP(outp, pchoice) == RMul(outp, pchoice)

\* abs(p - out_p) <= eps, p = marginal_p[-1][tuple(out)]
Consistent(marg, shape, row, outp) ==
    RLe(RAbs(RSub(Prob(At(marg[Len(shape)], row)), outp)), Eps)

-----------------------------------------------------------------------------
(* sample(), _sample_direct and count_samples: their checks and results *)

\* assert abs(1.0 - probab_sum.real) <= eps
SumOk(pr) == RLe(RAbs(RSub(ROne, Prob(SetSum(pr, DOMAIN pr)))), Eps)

\* DimsOk with the bound off by one (dim <= 256)
DimsOk_OffByOne(dims) == \A k \in DOMAIN dims : dims[k] <= MaxOutcomeDim + 1

\* assert all(dim <= 255 for dim in self.outdims)
DimsOk(dims) == \A k \in DOMAIN dims : dims[k] <= MaxOutcomeDim

\* out = np.zeros((n_samples, len(probab)), dtype=np.uint8); out[...] = 0xff
NewBatch(n, shape) == [r \in 1 .. n |-> [j \in 1 .. Len(shape) |-> Unfilled]]

\* assert (out < np.array(self.nsoutdims)[None, :]).all()
InRange(batch, shape) ==
    \A r \in DOMAIN batch : \A j \in DOMAIN batch[r] : batch[r][j] < shape[j]

\* _sample_direct: probab as an array of probabilities
DirectP(pr) == [t \in DOMAIN pr |-> Prob(pr[t])]

\* for pos, c in enumerate(np.unravel_index(choices, probab.shape)):
\*     out[:, pos] = c
FillColumns(batch, shape, choices) ==
    [r \in DOMAIN batch |->
        [j \in DOMAIN batch[r] |-> ToUInt8(Unravel(choices[r], shape)[j])]]

\* RowIs with .any(1) in place of .all(1)
RowIs_Any(row, o) == \E j \in DOMAIN o : row[j] = o[j]

\* (samples == np.array(out)[None, :]).all(1)
RowIs(row, o) == \A j \in DOMAIN o : row[j] = o[j]

\* the array counts filled by the loop over out_num
CountArray(batch, shape) ==
    [o \in AllIndex(shape) |->
        Cardinality({r \in DOMAIN batch : RowIs(batch[r], o)})]

\* counts.sum(): the sum over the sites' index ranges, one site after another
RECURSIVE ArrSum(_, _, _), RangeSum(_, _, _, _, _)
ArrSum(c, shape, t) ==
    IF Len(t) = Len(shape) THEN c[t]
    ELSE RangeSum(c, shape, t, 0, shape[Len(t) + 1] - 1)
RangeSum(c, shape, t, lo, hi) ==
    IF lo = hi THEN ArrSum(c, shape, Append(t, lo))
    ELSE LET mid == (lo + hi) \div 2
         IN  RangeSum(c, shape, t, lo, mid) + RangeSum(c, shape, t, mid + 1, hi)

CountsSum(c, shape) == ArrSum(c, shape, <<>>)

-----------------------------------------------------------------------------
(* The calls of sample() and count_samples() *)

\* an exception of the given type leaves the call, from the named check
Raise(e, check) == /\ pc' = "raised"
                   /\ err' = [type |-> e, check |-> check]

\* the variables of expectations() while no generator exists
ChainIdle ==
    /\ test = "none"
    /\ t_pc = "none"
    /\ t_fail = "none"
    /\ nr_sites = 0
    /\ local_dim = 0
    /\ bond_dim = 0
    /\ summand = "none"
    /\ mpo = <<>>
    /\ site = 0
    /\ comp_err = 0

ExpIdle ==
    /\ len_self = 0
    /\ plegs = <<>>
    /\ mode = "none"
    /\ gen_pc = "none"
    /\ gen_mode = "none"
    /\ gen_pos = 0
    /\ gen_err = NoError
    /\ yielded = <<>>
    /\ extra = 0

\* the variables of find_matching_elements while it is not called
MatchIdle ==
    /\ m_pc = "none"
    /\ m_err = NoError
    /\ self = None
    /\ other0 = None
    /\ other = None
    /\ inner = None
    /\ snormsq = None
    /\ onormsq = None
    /\ match = None
    /\ prefactors = None
    /\ sites = None

InitSample ==
    /\ ExpIdle
    /\ MatchIdle
    /\ ChainIdle
    /\ pc = "sample"
    /\ err = NoError
    /\ outdims \in Chains
    /\ probab \in ProbabChains(nsoutdims(outdims))
    /\ method \in Methods
    /\ n_samples \in 0 .. MaxSamples
    /\ n_group \in 1 .. MaxGroup
    /\ out = None
    /\ marginal_p = None
    /\ builds = 0
    /\ drawn = 0
    /\ i = 0
    /\ n_out = 0
    /\ out_p = ROne
    /\ samples = None
    /\ counts = None
    /\ attempts = 1

InitCount ==
    /\ ExpIdle
    /\ MatchIdle
    /\ ChainIdle
    /\ pc = "count"
    /\ err = NoError
    /\ outdims \in Chains
    /\ probab = None
    /\ method = "none"
    /\ n_samples = 0
    /\ n_group = 1
    /\ out = None
    /\ marginal_p = None
    /\ builds = 0
    /\ drawn = 0
    /\ i = 0
    /\ n_out = 0
    /\ out_p = ROne
    /\ samples \in ForeignBatches(nsoutdims(outdims))
    /\ counts = None
    /\ attempts = 0

\* Dispatch taking every method other than 'cond' as 'direct'
Dispatch_ElseDirect(m) == IF m = "cond" THEN "cond" ELSE "direct"

\* if method == 'cond': ... elif method == 'direct': ... else: raise
Dispatch(m) ==
    IF m = "cond" THEN "cond"
    ELSE IF m = "direct" THEN "direct"
    ELSE "raise"

\* sample(), up to the choice of the method
Sample ==
    /\ pc = "sample"
    /\ IF ~SumOk(probab) \/ ~DimsOk(outdims)
       THEN /\ Raise("AssertionError",
                     IF ~SumOk(probab) THEN "probab_sum" ELSE "outdims")
            /\ UNCHANGED out
       ELSE /\ out' = NewBatch(n_samples, nsoutdims(outdims))
            /\ IF Dispatch(method) = "raise"
               THEN Raise("ValueError", "method")
               ELSE pc' = Dispatch(method) /\ err' = err
    /\ UNCHANGED <<outdims, probab, method, n_samples, n_group, marginal_p,
                   builds, drawn, i, n_out, out_p, samples, counts>>
    /\ UNCHANGED <<expVars, matchVars, chainVars, attempts>>

\* _sample_cond, up to its loop over the samples
SampleCond ==
    /\ pc = "cond"
    /\ marginal_p' = MarginalFamily(probab, nsoutdims(outdims))
    /\ builds' = builds + 1
    /\ i' = 0
    /\ IF RLe(RAbs(RSub(Prob(marginal_p'[0][<<>>]), ROne)), Eps)
       THEN pc' = "cond_loop" /\ err' = err
       ELSE Raise("AssertionError", "marginal_0")
    /\ UNCHANGED <<outdims, probab, method, n_samples, n_group, out, drawn,
                   n_out, out_p, samples, counts>>
    /\ UNCHANGED <<expVars, matchVars, chainVars, attempts>>

\* for i in range(n_samples): enter _sample_cond_single for row i
SingleEnter ==
    /\ pc = "cond_loop"
    /\ i < n_samples
    /\ pc' = "single"
    /\ n_out' = 0
    /\ out_p' = ROne
    /\ UNCHANGED <<err, outdims, probab, method, n_samples, n_group, out,
                   marginal_p, builds, drawn, i, samples, counts>>
    /\ UNCHANGED <<expVars, matchVars, chainVars, attempts>>

\* one pass of `for n_out in range(0, n_sites, n_group)`
SingleStep ==
    /\ pc = "single"
    /\ n_out < Len(nsoutdims(outdims))
    /\ LET shape == nsoutdims(outdims)
           pshape == StepShape(shape, n_out, n_group)
           p0 == CondP(marginal_p, shape, out[i + 1], n_out, n_group, out_p)
           p == Clamp(p0)
       IN  IF ~NonNegWithinEps(p0) \/ ~SumsToOne(p)
           THEN /\ Raise("AssertionError", "cond_p")
                /\ UNCHANGED <<out, out_p, n_out>>
           ELSE \E c \in Choices(p, pshape) :
                    /\ out' = [out EXCEPT
                                 ![i + 1] = WriteSlice(@, n_out, pshape, c)]
                    /\ out_p' = NextOutP(out_p, Flat(p, pshape, c))
                    /\ n_out' = n_out + n_group
                    /\ UNCHANGED <<pc, err>>
    /\ UNCHANGED <<outdims, probab, method, n_samples, n_group, marginal_p,
                   builds, drawn, i, samples, counts>>
    /\ UNCHANGED <<expVars, matchVars, chainVars, attempts>>

\* the end of _sample_cond_single: the check of out_p, and the next i
SingleExit ==
    /\ pc = "single"
    /\ n_out >= Len(nsoutdims(outdims))
    /\ IF Consistent(marginal_p, nsoutdims(outdims), out[i + 1], out_p)
       THEN /\ pc' = "cond_loop"
            /\ i' = i + 1
            /\ drawn' = drawn + 1
            /\ err' = err
       ELSE /\ Raise("AssertionError", "out_p")
            /\ UNCHANGED <<i, drawn>>
    /\ UNCHANGED <<outdims, probab, method, n_samples, n_group, out,
                   marginal_p, builds, n_out, out_p, samples, counts>>
    /\ UNCHANGED <<expVars, matchVars, chainVars, attempts>>

\* _sample_cond returns to sample()
SampleCondExit ==
    /\ pc = "cond_loop"
    /\ i >= n_samples
    /\ pc' = "check"
    /\ UNCHANGED <<err, outdims, probab, method, n_samples, n_group, out,
                   marginal_p, builds, drawn, i, n_out, out_p, samples, counts>>
    /\ UNCHANGED <<expVars, matchVars, chainVars, attempts>>

\* _sample_direct
SampleDirect ==
    /\ pc = "direct"
    /\ LET shape == nsoutdims(outdims)
           p0 == DirectP(probab)
           p == Clamp(p0)
       IN  IF ~NonNegWithinEps(p0) \/ ~SumsToOne(p)
           THEN /\ Raise("AssertionError", "direct_p")
                /\ UNCHANGED out
           ELSE \E choices \in [1 .. n_samples -> Choices(p, shape)] :
                    /\ out' = FillColumns(out, shape, choices)
                    /\ pc' = "check"
                    /\ err' = err
    /\ UNCHANGED <<outdims, probab, method, n_samples, n_group, marginal_p,
                   builds, drawn, i, n_out, out_p, samples, counts>>
    /\ UNCHANGED <<expVars, matchVars, chainVars, attempts>>

\* the last check of sample(), and its return
SampleReturn ==
    /\ pc = "check"
    /\ IF InRange(out, nsoutdims(outdims))
       THEN pc' = "returned" /\ err' = err
       ELSE Raise("AssertionError", "out_range")
    /\ UNCHANGED <<outdims, probab, method, n_samples, n_group, out,
                   marginal_p, builds, drawn, i, n_out, out_p, samples, counts>>
    /\ UNCHANGED <<expVars, matchVars, chainVars, attempts>>

\* count_samples(), on the batch sample() returned or on the caller's own
CountSamples ==
    /\ pc \in {"returned", "count"}
    /\ samples' = IF pc = "returned" THEN out ELSE samples
    /\ LET c == CountArray(samples', nsoutdims(outdims))
       IN  IF CountsSum(c, nsoutdims(outdims)) = Len(samples')
           THEN /\ counts' = c
                /\ pc' = "counted"
                /\ err' = err
           ELSE /\ Raise("AssertionError", "counts_sum")
                /\ counts' = counts
    /\ UNCHANGED <<outdims, probab, method, n_samples, n_group, out,
                   marginal_p, builds, drawn, i, n_out, out_p>>
    /\ UNCHANGED <<expVars, matchVars, chainVars, attempts>>

\* the caller, told by the ValueError that the method is unknown, calls
\* sample() again on the same measurement and state with a valid method
Retry ==
    /\ pc = "raised"
    /\ err = [type |-> "ValueError", check |-> "method"]
    /\ attempts < MaxAttempts
    /\ pc' = "sample"
    /\ err' = NoError
    /\ method' \in {"cond", "direct"}
    /\ out' = None
    /\ attempts' = attempts + 1
    /\ UNCHANGED <<outdims, probab, n_samples, n_group, marginal_p, builds,
                   drawn, i, n_out, out_p, samples, counts>>
    /\ UNCHANGED <<expVars, matchVars, chainVars>>

NextSample ==
    \/ Retry
    \/ Sample
    \/ SampleCond
    \/ SingleEnter
    \/ SingleStep
    \/ SingleExit
    \/ SampleCondExit
    \/ SampleDirect
    \/ SampleReturn
    \/ CountSamples

SpecSample == (InitSample \/ InitCount) /\ [][NextSample]_vars

-----------------------------------------------------------------------------
(* expectations(): the generator *)

MaxStateLen == MaxSites + 1
MaxExtraNext == 2

Modes == {"auto", "mps", "mpdo", "pmps", "mpo"}

\* the states handed to expectations(): any legs per site with mode 'auto'
\* or an unknown mode, the legs of the representation with a named one
StateLegs(m) ==
    IF m = "mps" THEN {[k \in 1 .. n |-> 1] : n \in 1 .. MaxStateLen}
    ELSE IF m \in {"mpdo", "pmps"}
    THEN {[k \in 1 .. n |-> 2] : n \in 1 .. MaxStateLen}
    ELSE UNION {[1 .. n -> 1 .. 3] : n \in 1 .. MaxStateLen}

\* ResolveMode inferring 'pmps' for two legs per site
ResolveMode_Pmps(m, pl) ==
    IF m = "auto"
    THEN IF \A k \in DOMAIN pl : pl[k] = 1 THEN "mps"
         ELSE IF \A k \in DOMAIN pl : pl[k] = 2 THEN "pmps"
         ELSE m
    ELSE m

\* if mode == 'auto': ... the value of `mode` after these lines
ResolveMode(m, pl) ==
    IF m = "auto"
    THEN IF \A k \in DOMAIN pl : pl[k] = 1 THEN "mps"
         ELSE IF \A k \in DOMAIN pl : pl[k] = 2 THEN "mpdo"
         ELSE m
    ELSE m

\* the branches `if mode == 'mps' ... elif 'mpdo' ... elif 'pmps'`
Recognized(m) == m \in {"mps", "mpdo", "pmps"}

\* mpsmpo.reductions_mps_as_pmps / reductions_mpo / reductions_pmps(mpa,
\* width): the first sites of the windows of `width` sites, in order
Reductions(len_mpa, width) == [k \in 1 .. (len_mpa - width + 1) |-> k - 1]

\* mp.dot(pmap, rho_red.ravel()): the probabilities of self's outcomes on
\* the reduced state of the window starting at site `start`
Chain(start, width, m) ==
    [sites |-> [k \in 1 .. width |-> start + k - 1], rep |-> m]

\* ForContinues with the loop left after its first pass
ForContinues_Once(pos, reds) == pos < 1 /\ pos < Len(reds)

\* the for loop over the reductions: is there another one to yield?
ForContinues(pos, reds) == pos < Len(reds)

InitExp ==
    /\ pc = "none"
    /\ err = NoError
    /\ outdims = None
    /\ probab = None
    /\ method = "none"
    /\ n_samples = 0
    /\ n_group = 1
    /\ out = None
    /\ marginal_p = None
    /\ builds = 0
    /\ drawn = 0
    /\ i = 0
    /\ n_out = 0
    /\ out_p = ROne
    /\ samples = None
    /\ counts = None
    /\ attempts = 0
    /\ MatchIdle
    /\ ChainIdle
    /\ len_self \in 1 .. MaxSites
    /\ mode \in Modes
    /\ plegs \in StateLegs(mode)
    /\ gen_pc = "none"
    /\ gen_mode = "none"
    /\ gen_pos = 0
    /\ gen_err = NoError
    /\ yielded = <<>>
    /\ extra = 0

\* an exception leaves the generator, which is finished by it
GenRaise(e, check) ==
    /\ gen_pc' = "done"
    /\ gen_err' = [type |-> e, check |-> check]

\* the call expectations(mpa, mode): a generator is made, its body not run
Expectations ==
    /\ gen_pc = "none"
    /\ gen_pc' = "created"
    /\ UNCHANGED <<len_self, plegs, mode, gen_mode, gen_pos, gen_err, yielded,
                   extra>>
    /\ UNCHANGED <<sampleVars, matchVars, chainVars>>

\* next() on the generator: the body runs to its next yield, return or raise
GenNext ==
    /\ gen_pc \in {"created", "suspended", "done"}
    /\ gen_pc = "done" => extra < MaxExtraNext
    /\ IF gen_pc = "created"
       THEN IF ~(len_self <= Len(plegs))
            THEN /\ GenRaise("AssertionError", "len")
                 /\ UNCHANGED <<gen_mode, gen_pos, yielded, extra>>
            ELSE /\ gen_mode' = ResolveMode(mode, plegs)
                 /\ IF Recognized(gen_mode')
                    THEN LET reds == Reductions(Len(plegs), len_self)
                         IN  IF ForContinues(0, reds)
                             THEN /\ yielded' = Append(yielded,
                                        Chain(reds[1], len_self, gen_mode'))
                                  /\ gen_pos' = 1
                                  /\ gen_pc' = "suspended"
                                  /\ UNCHANGED <<gen_err, extra>>
                             ELSE /\ gen_pc' = "done"
                                  /\ UNCHANGED <<gen_pos, gen_err, yielded,
                                                 extra>>
                    ELSE /\ GenRaise("ValueError", "mode")
                         /\ UNCHANGED <<gen_pos, yielded, extra>>
       ELSE IF gen_pc = "suspended"
       THEN LET reds == Reductions(Len(plegs), len_self)
            IN  IF ForContinues(gen_pos, reds)
                THEN /\ yielded' = Append(yielded,
                           Chain(reds[gen_pos + 1], len_self, gen_mode))
                     /\ gen_pos' = gen_pos + 1
                     /\ UNCHANGED <<gen_pc, gen_mode, gen_err, extra>>
                ELSE /\ gen_pc' = "done"
                     /\ UNCHANGED <<gen_mode, gen_pos, gen_err, yielded, extra>>
       ELSE /\ extra' = extra + 1
            /\ UNCHANGED <<gen_pc, gen_mode, gen_pos, gen_err, yielded>>
    /\ UNCHANGED <<len_self, plegs, mode>>
    /\ UNCHANGED <<sampleVars, matchVars, chainVars>>

NextExp ==
    \/ Expectations
    \/ GenNext

SpecExp == InitExp /\ [][NextExp]_vars

-----------------------------------------------------------------------------
(* find_matching_elements: chains, operators and arrays *)

(* A complex number is <<re, im>>.  An operator on a site of Hilbert-space *)
(* dimension h is its h x h matrix, row by row.  A site of a measurement   *)
(* chain is [h, elems], elems[j + 1] being the operator of outcome j; the  *)
(* chains of the model are products of their sites (bond dimension 1), so  *)
(* the operator of an outcome tuple is the Kronecker product of the sites' *)
(* operators and inner products are products over the sites.               *)

CAdd(a, b) == <<a[1] + b[1], a[2] + b[2]>>
CMul(a, b) == <<a[1] * b[1] - a[2] * b[2], a[1] * b[2] + a[2] * b[1]>>
CConj(a) == <<a[1], -a[2]>>
\* CAbsSq with the real part in place of the modulus
CAbsSq_RealPart(a) == a[1] * a[1]

\* abs(z) ** 2
CAbsSq(a) == a[1] * a[1] + a[2] * a[2]
\* z.real
CRe(a) == a[1]
COne == <<1, 0>>
CZero == <<0, 0>>

\* eps of find_matching_elements is 1 / EpsInv
EpsInv == 1000
MatchEps == Rat(1, EpsInv)

\* MPPovm.outdims, MPPovm.hdims
OutDims(chain) == [s \in DOMAIN chain |-> Len(chain[s].elems)]
HDims(chain) == [s \in DOMAIN chain |-> chain[s].h]

\* support = tuple(outdim > 1 for outdim in self.outdims)
Support(chain) == [s \in DOMAIN chain |-> Len(chain[s].elems) > 1]

RECURSIVE OpSum(_)
OpSum(ops) ==
    IF Len(ops) = 1 THEN ops[1]
    ELSE LET rest == OpSum(Tail(ops))
         IN  [k \in DOMAIN rest |-> CAdd(ops[1][k], rest[k])]

\* other = MPPovm(mp.dot(tr, other)): the outcomes of `other` are kept on
\* the sites of the support (np.eye) and summed on the others (np.ones)
Project(supp, chain) ==
    [s \in DOMAIN chain |->
        IF supp[s] THEN chain[s]
        ELSE [h |-> chain[s].h, elems |-> <<OpSum(chain[s].elems)>>]]

\* mp.dot(a.conj(), b, axes=((1, 2), (1, 2))) on one site, for one pair of
\* outcomes: the sum over rows and columns of conj(a) * b
RECURSIVE OpInner(_, _)
OpInner(a, b) ==
    IF a = <<>> THEN CZero
    ELSE CAdd(CMul(CConj(a[1]), b[1]), OpInner(Tail(a), Tail(b)))

\* the index of every site, from an index over the sites of `mask` only
\* (the other sites have a single outcome, 0)
FullIndex(t, mask) ==
    [s \in DOMAIN mask |->
        IF mask[s] THEN t[Cardinality({r \in 1 .. s : mask[r]})] ELSE 0]

\* the dimensions of the sites of `mask`
RECURSIVE Masked(_, _)
Masked(dims, mask) ==
    IF dims = <<>> THEN <<>>
    ELSE (IF mask[1] THEN <<dims[1]>> ELSE <<>>)
             \o Masked(Tail(dims), Tail(mask))

\* the product over the sites of the local inner products: one entry of
\* mp.dot(a.conj(), b, ...) as a global array
RECURSIVE ChainInner(_, _, _, _)
ChainInner(a, ia, b, ib) ==
    IF a = <<>> THEN COne
    ELSE CMul(OpInner(a[1].elems[ia[1] + 1], b[1].elems[ib[1] + 1]),
              ChainInner(Tail(a), Tail(ia), Tail(b), Tail(ib)))

\* mp.prune(x, True) keeps the sites whose physical legs do not all have
\* size 1, and contracts the others into their neighbours
PrunedOfPair(da, db) == [s \in DOMAIN da |-> da[s] * db[s] # 1]
PrunedOfOne(d) == [s \in DOMAIN d |-> d[s] # 1]

\* inner = abs(mp.prune(inner, True).to_array_global()) ** 2: the axes of
\* self's outcomes on the kept sites, then those of other's
InnerArray(a, b) ==
    LET keep == PrunedOfPair(OutDims(a), OutDims(b))
        sa == Masked(OutDims(a), keep)
        sb == Masked(OutDims(b), keep)
    IN  [shape |-> sa \o sb,
         val |-> [t \in AllIndex(sa \o sb) |->
                    CAbsSq(ChainInner(a, FullIndex(Take(t, Len(sa)), keep),
                                      b, FullIndex(Drop(t, Len(sa)), keep)))]]

\* mp.dot(eye3d, mp.dot(a.conj(), a, ...), ...): the inner product of every
\* element with itself; mp.prune(..., True).to_array().real
NormSqArray(a) ==
    LET keep == PrunedOfOne(OutDims(a))
        sa == Masked(OutDims(a), keep)
    IN  [shape |-> sa,
         val |-> [t \in AllIndex(sa) |->
                    CRe(ChainInner(a, FullIndex(t, keep),
                                   a, FullIndex(t, keep)))]]

\* normprod = np.outer(snormsq, onormsq).reshape(inner.shape)
NormProd(sn, on, shape) ==
    [t \in AllIndex(shape) |->
        sn.val[Take(t, Len(sn.shape))] * on.val[Drop(t, Len(sn.shape))]]

\* assert ((normprod - inner) / normprod >= -eps).all()
CauchySchwarzOk(inn, np) ==
    \A t \in DOMAIN np :
        RLe(RSub(RZero, MatchEps), Rat(np[t] - inn.val[t], np[t]))

\* IsMatch with the equality test on the inner product alone (inner > 0)
IsMatch_Overlap(innerv, normprodv) == innerv > 0

\* abs(inner / normprod - 1) <= eps
IsMatch(innerv, normprodv) ==
    RLe(RAbs(RSub(Rat(innerv, normprodv), ROne)), MatchEps)

\* the non-negative integer whose square is n, or -1
IntSqrt(n) ==
    IF \E r \in 0 .. n : r * r = n THEN CHOOSE r \in 0 .. n : r * r = n ELSE -1

NaN == [kind |-> "nan", num |-> 0, den |-> 1]

\* Power with the ratio itself in place of its square root
Power_NoRoot(q) == [kind |-> "rational", num |-> q[1], den |-> q[2]]

\* q ** 0.5 for a rational q >= 0: the rational root num / den, or the
\* irrational root of num / den
Power(q) ==
    IF IntSqrt(q[1]) >= 0 /\ IntSqrt(q[2]) >= 0
    THEN [kind |-> "rational", num |-> IntSqrt(q[1]), den |-> IntSqrt(q[2])]
    ELSE [kind |-> "surd", num |-> q[1], den |-> q[2]]

\* prefactors = (snormsq / onormsq) ** 0.5; prefactors[~match] = np.nan
Prefactors(sn, on, mt) ==
    [t \in DOMAIN mt |->
        IF mt[t]
        THEN Power(Rat(sn.val[Take(t, Len(sn.shape))],
                       on.val[Drop(t, Len(sn.shape))]))
        ELSE NaN]

\* sites = np.nonzero(support)[0]
RECURSIVE NonZero(_, _)
NonZero(supp, pos) ==
    IF supp = <<>> THEN <<>>
    ELSE (IF supp[1] THEN <<pos>> ELSE <<>>) \o NonZero(Tail(supp), pos + 1)

-----------------------------------------------------------------------------
(* find_matching_elements: inputs and the call *)

\* operators on a qubit: projectors, multiples of them and of the identity
\* (positive, negative and imaginary), eigenprojectors of Pauli Y (times 2)
P0 == <<<<1, 0>>, <<0, 0>>, <<0, 0>>, <<0, 0>>>>
P1 == <<<<0, 0>>, <<0, 0>>, <<0, 0>>, <<1, 0>>>>
Id == <<<<1, 0>>, <<0, 0>>, <<0, 0>>, <<1, 0>>>>
TwoP0 == <<<<2, 0>>, <<0, 0>>, <<0, 0>>, <<0, 0>>>>
TwoId == <<<<2, 0>>, <<0, 0>>, <<0, 0>>, <<2, 0>>>>
NegP0 == <<<<-1, 0>>, <<0, 0>>, <<0, 0>>, <<0, 0>>>>
ImP0 == <<<<0, 1>>, <<0, 0>>, <<0, 0>>, <<0, 0>>>>
PlusY == <<<<1, 0>>, <<0, -1>>, <<0, 1>>, <<1, 0>>>>
MinusY == <<<<1, 0>>, <<0, 1>>, <<0, -1>>, <<1, 0>>>>
ZeroOp == <<<<0, 0>>, <<0, 0>>, <<0, 0>>, <<0, 0>>>>
\* the operator 1 on a site of Hilbert-space dimension 1
Scalar1 == <<<<1, 0>>>>

QubitSite(elems) == [h |-> 2, elems |-> elems]

\* the sites with two outcomes
PairSites ==
    {QubitSite(<<a, b>>) :
        a \in {P0, Id, PlusY},
        b \in {P0, P1, TwoP0, TwoId, NegP0, ImP0, MinusY, ZeroOp}}

\* first sites, and the sites that may follow one
FirstSites == PairSites \cup {QubitSite(<<Id>>)}
NextSites ==
    {QubitSite(<<Id>>), QubitSite(<<P0, P1>>), QubitSite(<<Id, TwoId>>),
     [h |-> 1, elems |-> <<Scalar1>>]}

MatchChains ==
    {<<a>> : a \in FirstSites} \cup {<<a, b>> : a \in FirstSites, b \in NextSites}

InitMatch ==
    /\ pc = "none"
    /\ err = NoError
    /\ outdims = None
    /\ probab = None
    /\ method = "none"
    /\ n_samples = 0
    /\ n_group = 1
    /\ out = None
    /\ marginal_p = None
    /\ builds = 0
    /\ drawn = 0
    /\ i = 0
    /\ n_out = 0
    /\ out_p = ROne
    /\ samples = None
    /\ counts = None
    /\ attempts = 0
    /\ ExpIdle
    /\ ChainIdle
    /\ m_pc = "call"
    /\ m_err = NoError
    /\ self \in {c \in MatchChains : \E s \in DOMAIN c : Len(c[s].elems) > 1}
    /\ other0 \in MatchChains
    /\ other = other0
    /\ inner = None
    /\ snormsq = None
    /\ onormsq = None
    /\ match = None
    /\ prefactors = None
    /\ sites = None

MatchRaise(e, check) ==
    /\ m_pc' = "raised"
    /\ m_err' = [type |-> e, check |-> check]

\* the check of the Hilbert spaces, and the projection of `other`
FmeProject ==
    /\ m_pc = "call"
    /\ IF HDims(self) # HDims(other)
       THEN /\ MatchRaise("ValueError", "hdims")
            /\ UNCHANGED other
       ELSE /\ other' = Project(Support(self), other)
            /\ m_pc' = "projected"
            /\ UNCHANGED m_err
    /\ UNCHANGED <<self, other0, inner, snormsq, onormsq, match, prefactors,
                   sites>>
    /\ UNCHANGED <<sampleVars, expVars, chainVars>>

\* the inner products and the squared norms, as arrays
FmeInner ==
    /\ m_pc = "projected"
    /\ inner' = InnerArray(self, other)
    /\ snormsq' = NormSqArray(self)
    /\ onormsq' = NormSqArray(other)
    /\ m_pc' = "computed"
    /\ UNCHANGED <<m_err, self, other0, other, match, prefactors, sites>>
    /\ UNCHANGED <<sampleVars, expVars, chainVars>>

\* the assertions on norms and shapes, the Cauchy-Schwarz check and match
FmeMatch ==
    /\ m_pc = "computed"
    /\ IF \E t \in DOMAIN snormsq.val : ~(snormsq.val[t] > 0)
       THEN MatchRaise("AssertionError", "snormsq") /\ UNCHANGED match
       ELSE IF \E t \in DOMAIN onormsq.val : ~(onormsq.val[t] > 0)
       THEN MatchRaise("AssertionError", "onormsq") /\ UNCHANGED match
       ELSE IF inner.shape # snormsq.shape \o onormsq.shape
       THEN MatchRaise("AssertionError", "shape") /\ UNCHANGED match
       ELSE LET normprod == NormProd(snormsq, onormsq, inner.shape)
            IN  IF ~CauchySchwarzOk(inner, normprod)
                THEN MatchRaise("AssertionError", "cauchy_schwarz")
                     /\ UNCHANGED match
                ELSE /\ match' = [t \in DOMAIN normprod |->
                                    IsMatch(inner.val[t], normprod[t])]
                     /\ m_pc' = "matched"
                     /\ UNCHANGED m_err
    /\ UNCHANGED <<self, other0, other, inner, snormsq, onormsq, prefactors,
                   sites>>
    /\ UNCHANGED <<sampleVars, expVars, chainVars>>

\* the prefactors, the sites, and the return
FmeReturn ==
    /\ m_pc = "matched"
    /\ prefactors' = Prefactors(snormsq, onormsq, match)
    /\ sites' = NonZero(Support(self), 0)
    /\ m_pc' = "returned"
    /\ UNCHANGED <<m_err, self, other0, other, inner, snormsq, onormsq, match>>
    /\ UNCHANGED <<sampleVars, expVars, chainVars>>

NextMatch ==
    \/ FmeProject
    \/ FmeInner
    \/ FmeMatch
    \/ FmeReturn

SpecMatch == InitMatch /\ [][NextMatch]_vars

-----------------------------------------------------------------------------
(* mparray_test: normalization and compression of a chain (MPArray) *)

MaxChainSites == 4
MaxLocalDim == 2

Max(a, b) == IF a >= b THEN a ELSE b

RECURSIVE Pow(_, _)
Pow(b, e) == IF e = 0 THEN 1 ELSE b * Pow(b, e - 1)

\* the largest rank a chain of n sites with physical dimension pdim per
\* site can have at bond k, the bond between sites k - 1 and k
MaxRank(k, n, pdim) == Min(Pow(pdim, k), Pow(pdim, n - k))

\* the dimensions of the left and right bond of site s (sites from 0;
\* bdims[k] is the bond between sites k - 1 and k)
LeftBond(bd, s) == IF s = 0 THEN 1 ELSE bd[s]
RightBond(bd, s) == IF s = Len(bd) THEN 1 ELSE bd[s + 1]

\* factory.random_mpa(nr_sites, (local_dim, local_dim), bond_dim): generic
\* site tensors, none of them orthogonal, every bond of dimension bond_dim;
\* rank is the rank of the represented array at each bond
RandomMpa(n, ld, bd) ==
    [normal_form |-> <<0, n>>,
     lcan |-> {},
     rcan |-> {},
     bdims |-> [k \in 1 .. (n - 1) |-> bd],
     rank |-> [k \in 1 .. (n - 1) |-> Min(bd, MaxRank(k, n, ld * ld))]]

\* mpo + zero (factory.zero_mpa, which adds nothing to the array), or mpo
\* plus a second generic chain: either sum has bonds 2 * bond_dim
SumMpa(a, what, n, ld) ==
    [normal_form |-> <<0, n>>,
     lcan |-> {},
     rcan |-> {},
     bdims |-> [k \in DOMAIN a.bdims |-> 2 * a.bdims[k]],
     rank |-> [k \in DOMAIN a.rank |->
                 IF what = "zero" THEN a.rank[k]
                 ELSE Min(2 * a.rank[k], MaxRank(k, n, ld * ld))]]

\* one step of a left sweep at site s: the site becomes the orthogonal
\* factor, the remainder goes into site s + 1; a rank-revealing
\* factorization shrinks the bond to the number of rows
LStep(ch, s, pdim) ==
    [ch EXCEPT !.lcan = (@ \cup {s}) \ {s + 1},
               !.rcan = @ \ {s, s + 1},
               !.bdims[s + 1] = Min(@, LeftBond(ch.bdims, s) * pdim)]

\* the mirror step of a right sweep at site s
RStep(ch, s, pdim) ==
    [ch EXCEPT !.rcan = (@ \cup {s}) \ {s - 1},
               !.lcan = @ \ {s, s - 1},
               !.bdims[s] = Min(@, pdim * RightBond(ch.bdims, s))]

RECURSIVE LSweep(_, _, _, _)
LSweep(ch, s, to, pdim) ==
    IF s >= to THEN ch ELSE LSweep(LStep(ch, s, pdim), s + 1, to, pdim)

RECURSIVE RSweep(_, _, _, _)
RSweep(ch, s, to, pdim) ==
    IF s < to THEN ch ELSE RSweep(RStep(ch, s, pdim), s - 1, to, pdim)

\* the marker after a left sweep up to to_site that leaves it as it was
LMarker_Stale(nf, to) == nf

\* the marker after a left sweep up to to_site
LMarker(nf, to) == <<to, Max(to + 1, nf[2])>>

\* the marker after a right sweep down to to_site
RMarker(nf, to) == <<Min(to - 1, nf[1]), to>>

\* left sweep from the left boundary up to to_site, and the mirror
LNormalize(ch, to, pdim) ==
    [LSweep(ch, ch.normal_form[1], to, pdim)
        EXCEPT !.normal_form = LMarker(ch.normal_form, to)]

RNormalize(ch, to, pdim) ==
    [RSweep(ch, ch.normal_form[2] - 1, to, pdim)
        EXCEPT !.normal_form = RMarker(ch.normal_form, to)]

\* mpo.normalize(left=left, right=right); an argument left out is 0 for
\* left and len(mpo) for right; sweeps only where the marker falls short
Normalize(ch, left, right, pdim) ==
    LET a == IF ch.normal_form[1] < left THEN LNormalize(ch, left, pdim)
             ELSE ch
    IN  IF a.normal_form[2] > right THEN RNormalize(a, right, pdim) ELSE a


\* the rank at the bond right of site s once the bond left of it has its
\* present rank, and the mirror
RankRight(ch, s, pdim) ==
    Min(ch.rank[s + 1], (IF s = 0 THEN 1 ELSE ch.rank[s]) * pdim)
RankLeft(ch, s, pdim) ==
    Min(ch.rank[s], pdim * (IF s = Len(ch.rank) THEN 1 ELSE ch.rank[s + 1]))

\* one step of the compression sweep to the right at site s: the singular
\* value decomposition keeps at most b values at the bond right of s, the
\* site becomes the left-orthogonal factor, the rest goes into site s + 1
SvdRStep(ch, s, b, pdim) ==
    [ch EXCEPT !.lcan = (@ \cup {s}) \ {s + 1},
               !.rcan = @ \ {s, s + 1},
               !.bdims[s + 1] = Min(b, Min(@, LeftBond(ch.bdims, s) * pdim)),
               !.rank[s + 1] = Min(b, RankRight(ch, s, pdim))]

SvdLStep(ch, s, b, pdim) ==
    [ch EXCEPT !.rcan = (@ \cup {s}) \ {s - 1},
               !.lcan = @ \ {s, s - 1},
               !.bdims[s] = Min(b, Min(@, pdim * RightBond(ch.bdims, s))),
               !.rank[s] = Min(b, RankLeft(ch, s, pdim))]

\* Dropped counting the singular values that are kept as well
Dropped_All(r, b) == r

\* the discarded weight of one step, counted in nonzero singular values
\* dropped (each of them has positive weight)
Dropped(r, b) == Max(0, r - b)

RECURSIVE SvdRSweep(_, _, _, _, _)
SvdRSweep(ch, s, b, pdim, acc) ==
    IF s >= Len(ch.bdims) THEN [mpa |-> ch, err |-> acc]
    ELSE SvdRSweep(SvdRStep(ch, s, b, pdim), s + 1, b, pdim,
                   acc + Dropped(RankRight(ch, s, pdim), b))

RECURSIVE SvdLSweep(_, _, _, _, _)
SvdLSweep(ch, s, b, pdim, acc) ==
    IF s < 1 THEN [mpa |-> ch, err |-> acc]
    ELSE SvdLSweep(SvdLStep(ch, s, b, pdim), s - 1, b, pdim,
                   acc + Dropped(RankLeft(ch, s, pdim), b))

\* mpa.compress(max_bdim=b, method='svd', direction=...): normalize to the
\* far end, sweep back truncating every bond, set the marker of the sweep;
\* the value returned is the discarded weight
Compress(ch, b, direction, pdim) ==
    LET n == Len(ch.bdims) + 1
    IN  IF direction = "right"
        THEN LET r == SvdRSweep(Normalize(ch, 0, 1, pdim), 0, b, pdim, 0)
             IN  [mpa |-> [r.mpa EXCEPT !.normal_form = <<n - 1, n>>],
                  err |-> r.err]
        ELSE LET r == SvdLSweep(Normalize(ch, n - 1, n, pdim), n - 1, b,
                                pdim, 0)
             IN  [mpa |-> [r.mpa EXCEPT !.normal_form = <<0, 1>>],
                  err |-> r.err]

\* assert_correct_normalzation(mpo, lnormal_target, rnormal_target): the
\* marker is the target, the sites left of it pass assert_lcannonical and
\* the sites from the right boundary on pass assert_rcannonical
AssertCorrect(ch, lt, rt) ==
    /\ ch.normal_form = <<lt, rt>>
    /\ \A n \in 0 .. (ch.normal_form[1] - 1) : n \in ch.lcan
    /\ \A n \in ch.normal_form[2] .. Len(ch.bdims) : n \in ch.rcan

Tests == {"test_incremental_normalization", "test_jump_normalization",
          "test_full_normalization", "test_compression_svd"}

\* the parameters of a test (MP_TEST_PARAMETERS has bond dimensions that
\* the physical dimension of a site can carry), the chain it creates, and
\* for test_jump_normalization the cut: nr_sites // 2 among the inner cuts
InitChain ==
    /\ pc = "none"
    /\ err = NoError
    /\ outdims = None
    /\ probab = None
    /\ method = "none"
    /\ n_samples = 0
    /\ n_group = 1
    /\ out = None
    /\ marginal_p = None
    /\ builds = 0
    /\ drawn = 0
    /\ i = 0
    /\ n_out = 0
    /\ out_p = ROne
    /\ samples = None
    /\ counts = None
    /\ attempts = 0
    /\ ExpIdle
    /\ MatchIdle
    /\ test \in Tests
    /\ t_pc = "start"
    /\ t_fail = "none"
    /\ nr_sites \in 2 .. MaxChainSites
    /\ local_dim \in 1 .. MaxLocalDim
    /\ bond_dim \in 1 .. (local_dim * local_dim)
    /\ summand \in IF test = "test_compression_svd" THEN {"zero", "random"}
                   ELSE {"none"}
    /\ mpo = RandomMpa(nr_sites, local_dim, bond_dim)
    /\ site \in IF test = "test_jump_normalization"
                THEN 1 .. (nr_sites - 1) ELSE {0}
    /\ comp_err = 0

\* the chain becomes ch; the assertions ok pass and the test goes on at
\* next, or one fails and the test ends
Checked(ch, ok, name, next, nextsite) ==
    /\ mpo' = ch
    /\ IF ok
       THEN /\ t_pc' = next
            /\ site' = nextsite
            /\ t_fail' = t_fail
       ELSE /\ t_pc' = "failed"
            /\ site' = site
            /\ t_fail' = name
    /\ UNCHANGED <<test, nr_sites, local_dim, bond_dim, summand>>
    /\ UNCHANGED <<sampleVars, expVars, matchVars>>

\* the first lines of the normalization tests: the fresh chain has the
\* marker (0, nr_sites)
TestStart ==
    /\ t_pc = "start"
    /\ Checked(mpo, AssertCorrect(mpo, 0, nr_sites), "created",
               CASE test = "test_incremental_normalization" -> "left"
                 [] test = "test_jump_normalization" -> "jump"
                 [] test = "test_full_normalization" -> "full_right"
                 [] OTHER -> "compress_right",
               IF test = "test_incremental_normalization" THEN 1 ELSE site)
    /\ UNCHANGED comp_err

\* for site in range(1, nr_sites): mpo.normalize(left=site); assert ...
IncrementalLeft ==
    /\ t_pc = "left"
    /\ LET ch == Normalize(mpo, site, nr_sites, local_dim * local_dim)
       IN  Checked(ch, AssertCorrect(ch, site, nr_sites), "left",
                   IF site + 1 < nr_sites THEN "left" ELSE "right",
                   IF site + 1 < nr_sites THEN site + 1 ELSE nr_sites - 1)
    /\ UNCHANGED comp_err

\* for site in range(nr_sites - 1, 0, -1): mpo.normalize(right=site); ...
IncrementalRight ==
    /\ t_pc = "right"
    /\ LET ch == Normalize(mpo, 0, site, local_dim * local_dim)
       IN  Checked(ch, AssertCorrect(ch, site - 1, site), "right",
                   IF site - 1 > 0 THEN "right" ELSE "done", site - 1)
    /\ UNCHANGED comp_err

\* mpo.normalize(left=center - 1, right=center); assert ...
JumpNormalization ==
    /\ t_pc = "jump"
    /\ LET ch == Normalize(mpo, site - 1, site, local_dim * local_dim)
       IN  Checked(ch, AssertCorrect(ch, site - 1, site), "jump", "done", site)
    /\ UNCHANGED comp_err

\* mpo.normalize(right=1); assert ...; then the second fresh chain
FullRight ==
    /\ t_pc = "full_right"
    /\ LET full == Normalize(mpo, 0, 1, local_dim * local_dim)
        fresh == RandomMpa(nr_sites, local_dim, bond_dim)
       IN  IF AssertCorrect(full, 0, 1)
           THEN Checked(fresh, AssertCorrect(fresh, 0, nr_sites), "created",
                        "full_left", site)
           ELSE Checked(full, FALSE, "full_right", "failed", site)
    /\ UNCHANGED comp_err

\* mpo.normalize(left=len(mpo) - 1); assert ...
FullLeft ==
    /\ t_pc = "full_left"
    /\ LET ch == Normalize(mpo, nr_sites - 1, nr_sites, local_dim * local_dim)
       IN  Checked(ch, AssertCorrect(ch, nr_sites - 1, nr_sites), "full_left",
                   "done", site)
    /\ UNCHANGED comp_err

\* the assertions of test_compression_svd that need the sum to be exactly
\* representable: they are those of the test for mpo + zero
ExactAsserts(ch, e) ==
    summand = "zero" =>
        /\ \A k \in DOMAIN ch.bdims : ch.bdims[k] = bond_dim
        /\ ch.rank = RandomMpa(nr_sites, local_dim, bond_dim).rank
        /\ e = 0

\* mpo_new = mpo + zero; err = mpo_new.compress(max_bdim=bond_dim,
\* method='svd', direction='right'); the assertions after it
CompressRight ==
    /\ t_pc = "compress_right"
    /\ LET new == SumMpa(RandomMpa(nr_sites, local_dim, bond_dim), summand,
                         nr_sites, local_dim)
           r == Compress(new, bond_dim, "right", local_dim * local_dim)
       IN  /\ comp_err' = r.err
           /\ Checked(r.mpa,
                      /\ ExactAsserts(r.mpa, r.err)
                      /\ AssertCorrect(r.mpa, nr_sites - 1, nr_sites),
                      "compress_right", "compress_left", site)

\* the same with direction='left'
CompressLeft ==
    /\ t_pc = "compress_left"
    /\ LET new == SumMpa(RandomMpa(nr_sites, local_dim, bond_dim), summand,
                         nr_sites, local_dim)
           r == Compress(new, bond_dim, "left", local_dim * local_dim)
       IN  /\ comp_err' = r.err
           /\ Checked(r.mpa,
                      /\ ExactAsserts(r.mpa, 0)
                      /\ AssertCorrect(r.mpa, 0, 1),
                      "compress_left", "done", site)

NextChain ==
    \/ TestStart
    \/ IncrementalLeft
    \/ IncrementalRight
    \/ JumpNormalization
    \/ FullRight
    \/ FullLeft
    \/ CompressRight
    \/ CompressLeft

SpecChain == InitChain /\ [][NextChain]_vars

-----------------------------------------------------------------------------
(* Properties of normalization and compression, checked under SpecChain *)

NormalizationTests == {"test_incremental_normalization",
                       "test_jump_normalization", "test_full_normalization"}

\* the marker claims nothing that does not hold: the sites left of the left
\* boundary are left-orthogonal, those from the right boundary on are
\* right-orthogonal
MarkerTruthful(ch, n) ==
    /\ 0 <= ch.normal_form[1]
    /\ ch.normal_form[1] <= ch.normal_form[2]
    /\ ch.normal_form[2] <= n
    /\ \A k \in 0 .. (n - 1) :
          /\ k < ch.normal_form[1] => k \in ch.lcan
          /\ k >= ch.normal_form[2] => k \in ch.rcan

\* C11: on a chain of N sites that starts with marker (0, N), the marker is
\* (k, N) after normalize(left=k) for k = 1..N-1 in increasing order, then
\* (k-1, k) after normalize(right=k) for k = N-1 down to 1, and (c-1, c)
\* after normalize(left=c-1, right=c) from the start; in each of these
\* states the marker claims no orthogonality that does not hold, and no
\* assertion of the normalization tests fails.
C11_MarkerFollowsNormalize ==
    test \in NormalizationTests =>
        /\ t_pc # "failed"
        /\ MarkerTruthful(mpo, nr_sites)
        /\ t_pc = "start" => mpo.normal_form = <<0, nr_sites>>
        /\ (t_pc = "left" /\ site > 1) =>
              mpo.normal_form = <<site - 1, nr_sites>>
        /\ (t_pc = "right" /\ site = nr_sites - 1) =>
              mpo.normal_form = <<nr_sites - 1, nr_sites>>
        /\ (t_pc = "right" /\ site < nr_sites - 1) =>
              mpo.normal_form = <<site, site + 1>>
        /\ (t_pc = "done" /\ test = "test_incremental_normalization") =>
              mpo.normal_form = <<0, 1>>
        /\ (t_pc = "done" /\ test = "test_jump_normalization") =>
              mpo.normal_form = <<site - 1, site>>
        /\ (t_pc = "done" /\ test = "test_full_normalization") =>
              mpo.normal_form = <<nr_sites - 1, nr_sites>>

\* the incremental test on a chain of at least three sites is half way
\* down: both sweeps have run and the marker is (1, 2)
C11_Witness ==
    /\ test = "test_incremental_normalization"
    /\ nr_sites >= 3
    /\ t_pc = "right"
    /\ site = 1
    /\ mpo.normal_form = <<1, 2>>
    /\ mpo.lcan = {0}
    /\ 2 \in mpo.rcan

\* the sum that test_compression_svd compresses, and whether bond_dim
\* suffices to represent it exactly
SumToCompress ==
    SumMpa(RandomMpa(nr_sites, local_dim, bond_dim), summand, nr_sites,
           local_dim)
ExactlyRepresentable ==
    \A k \in DOMAIN SumToCompress.rank : SumToCompress.rank[k] <= bond_dim

-----------------------------------------------------------------------------
(* Properties of expectations(), checked under SpecExp *)

\* the representation the claims expect for a mode and a state, "invalid"
\* where none can be named
ExpectedRep ==
    IF mode = "auto"
    THEN IF \A k \in DOMAIN plegs : plegs[k] = 1 THEN "mps"
         ELSE IF \A k \in DOMAIN plegs : plegs[k] = 2 THEN "mpdo"
         ELSE "invalid"
    ELSE IF mode \in {"mps", "mpdo", "pmps"} THEN mode
    ELSE "invalid"

\* the body of the generator has run (a first element was requested)
BodyEntered == gen_pc \in {"suspended", "done"}

\* C5 as stated: 'auto' becomes 'mps' for 1 leg per site and 'mpdo' for 2,
\* 'pmps' is never inferred, and every other case fails with the
\* invalid-mode ValueError, no chain being yielded.
C5_AsStated ==
    BodyEntered =>
        /\ gen_mode = "pmps" => mode = "pmps"
        /\ (ExpectedRep # "invalid" /\ gen_err = NoError) =>
              gen_mode = ExpectedRep
        /\ ExpectedRep = "invalid" =>
              /\ gen_err = [type |-> "ValueError", check |-> "mode"]
              /\ yielded = <<>>

\* C5, amended: the same for a state at least as long as the measurement;
\* on a shorter state the length assertion fails first, for every mode, and
\* no chain is yielded.
C5_ModeResolution ==
    BodyEntered =>
        /\ gen_mode = "pmps" => mode = "pmps"
        /\ (ExpectedRep # "invalid" /\ len_self <= Len(plegs)) =>
              /\ gen_mode = ExpectedRep
              /\ gen_err = NoError
        /\ (ExpectedRep = "invalid" /\ len_self <= Len(plegs)) =>
              /\ gen_err = [type |-> "ValueError", check |-> "mode"]
              /\ yielded = <<>>
        /\ len_self > Len(plegs) =>
              /\ gen_err = [type |-> "AssertionError", check |-> "len"]
              /\ yielded = <<>>

\* 'auto' on a state with 1 leg on one site and 2 on another has failed
\* with the ValueError
C5_Witness ==
    /\ BodyEntered
    /\ mode = "auto"
    /\ \E k \in DOMAIN plegs : plegs[k] = 1
    /\ \E k \in DOMAIN plegs : plegs[k] = 2
    /\ gen_err.type = "ValueError"

\* C6: for a measurement on L sites, a state on M >= L sites and a valid
\* mode, the generator delivers exactly M - L + 1 chains, the n-th for the
\* sites [n, ..., n + L - 1], in increasing order of n; nothing is computed
\* or checked before the first element is requested (whatever the
\* arguments), and the exhausted generator delivers nothing more.
C6_LazyWindows ==
    /\ gen_pc \in {"none", "created"} =>
          /\ yielded = <<>>
          /\ gen_err = NoError
          /\ gen_mode = "none"
          /\ gen_pos = 0
    /\ (len_self <= Len(plegs) /\ ExpectedRep # "invalid") =>
          /\ gen_err = NoError
          /\ Len(yielded) <= Len(plegs) - len_self + 1
          /\ \A n \in DOMAIN yielded :
                /\ yielded[n].sites = [k \in 1 .. len_self |-> (n - 1) + (k - 1)]
                /\ yielded[n].rep = ExpectedRep
          /\ gen_pc = "suspended" => Len(yielded) >= 1
          /\ gen_pc = "done" => Len(yielded) = Len(plegs) - len_self + 1

\* a generator over three windows of two sites is exhausted and has been
\* asked for more
C6_Witness ==
    /\ gen_pc = "done"
    /\ extra = MaxExtraNext
    /\ len_self = 2
    /\ Len(yielded) = 3

-----------------------------------------------------------------------------
(* Properties of find_matching_elements, checked under SpecMatch *)

\* The Kronecker product of two operators, and the operator of an outcome
\* tuple of a chain (one index per site)
Kron(a, b) ==
    [k \in 1 .. (Len(a) * Len(b)) |->
        CMul(a[((k - 1) \div Len(b)) + 1], b[((k - 1) % Len(b)) + 1])]

RECURSIVE GlobalOp(_, _)
GlobalOp(chain, idx) ==
    IF Len(chain) = 1 THEN chain[1].elems[idx[1] + 1]
    ELSE Kron(chain[1].elems[idx[1] + 1], GlobalOp(Tail(chain), Tail(idx)))

RECURSIVE VecSum(_)
VecSum(S) ==
    LET x == CHOOSE x \in S : TRUE
    IN  IF S = {x} THEN GlobalOp(x[1], x[2])
        ELSE LET rest == VecSum(S \ {x})
                 v == GlobalOp(x[1], x[2])
             IN  [k \in DOMAIN v |-> CAdd(v[k], rest[k])]

\* the operator of outcome tuple i of self (i over the sites of the support)
SelfOp(it) == GlobalOp(self, FullIndex(it, Support(self)))

\* the operator of the partial outcome j of the argument `other`: the sum of
\* its operators over the outcomes of the sites where self has one outcome
OtherOp(jt) ==
    VecSum({<<other0, f>> : f \in
             {f \in AllIndex(OutDims(other0)) :
                 \A s \in DOMAIN f :
                    Support(self)[s] => f[s] = FullIndex(jt, Support(self))[s]}})

RECURSIVE VecInner(_, _)
VecInner(a, b) ==
    IF a = <<>> THEN CZero
    ELSE CAdd(CMul(CConj(a[1]), b[1]), VecInner(Tail(a), Tail(b)))

IsZeroVec(a) == \A k \in DOMAIN a : a[k] = CZero

\* one of the operators is a complex multiple of the other
LinDependent(a, b) ==
    \A k \in DOMAIN a : \A l \in DOMAIN a : CMul(a[k], b[l]) = CMul(a[l], b[k])

\* a = c * b for a real c > 0
PosProportional(a, b) ==
    /\ ~IsZeroVec(a)
    /\ ~IsZeroVec(b)
    /\ LinDependent(a, b)
    /\ VecInner(b, a)[2] = 0
    /\ VecInner(b, a)[1] > 0

\* a = (num / den) * b
ScaledBy(a, num, den, b) ==
    \A k \in DOMAIN a : <<den * a[k][1], den * a[k][2]>>
                          = <<num * b[k][1], num * b[k][2]>>

\* the outcome tuples of self, and the index of match for a pair of tuples
SelfTuples == AllIndex(nsoutdims(OutDims(self)))
K == Len(nsoutdims(OutDims(self)))

\* no operator of a site of the chain is zero or a multiple of another
PairwiseIndependent(chain) ==
    \A s \in DOMAIN chain : \A a, b \in DOMAIN chain[s].elems :
        /\ ~IsZeroVec(chain[s].elems[a])
        /\ a # b => ~LinDependent(chain[s].elems[a], chain[s].elems[b])

RationalOne == [kind |-> "rational", num |-> 1, den |-> 1]

\* C7 as stated: find_matching_elements(povm, povm) reports every diagonal
\* pair as a match with prefactor 1 and every off-diagonal pair as a
\* non-match, for any product POVM with at least two outcomes on a site.
C7_AsStated ==
    (m_pc = "returned" /\ self = other0) =>
        \A it \in SelfTuples : \A jt \in SelfTuples :
            IF it = jt
            THEN match[it \o jt] /\ prefactors[it \o jt] = RationalOne
            ELSE ~match[it \o jt]

\* C7, amended: the same for a product POVM none of whose single-site
\* operators is zero or a scalar multiple of another operator of the same
\* site; on such a POVM the call returns.
C7_SelfMatchIsDiagonal ==
    (self = other0 /\ PairwiseIndependent(self)) =>
        /\ m_pc # "raised"
        /\ m_pc = "returned" =>
              \A it \in SelfTuples : \A jt \in SelfTuples :
                  IF it = jt
                  THEN match[it \o jt] /\ prefactors[it \o jt] = RationalOne
                  ELSE ~match[it \o jt]

\* a measurement of two sites with two independent outcomes each has been
\* matched against itself
C7_Witness ==
    /\ m_pc = "returned"
    /\ self = other0
    /\ PairwiseIndependent(self)
    /\ OutDims(self) = <<2, 2>>

\* C8 as stated (and not counting the assertions on the norms, which fail
\* for a zero operator): for chains on the same Hilbert spaces the call
\* fails no assertion and returns sites = the positions where self has more
\* than one outcome, match with 2k axes (self's outcome dimensions on those
\* sites, then other's on the same sites) and prefactors of the same shape.
C8_AsStated ==
    HDims(self) = HDims(other0) =>
        /\ m_err.type = "AssertionError" => m_err.check \in {"snormsq", "onormsq"}
        /\ m_pc = "returned" =>
              /\ sites = NonZero([s \in DOMAIN self |-> OutDims(self)[s] > 1], 0)
              /\ inner.shape = Masked(OutDims(self), Support(self))
                                 \o Masked(OutDims(other0), Support(self))
              /\ Len(inner.shape) = 2 * Len(sites)
              /\ DOMAIN match = AllIndex(inner.shape)
              /\ DOMAIN prefactors = DOMAIN match

\* C9 as stated: the squared inner product never exceeds the product of the
\* squared norms, and match[i, j] is true exactly when the operator of i and
\* the projected operator of j are proportional with a positive real factor
\* (a negative or complex multiple is never flagged).
C9_AsStated ==
    /\ m_err.check # "cauchy_schwarz"
    /\ m_pc \in {"matched", "returned"} =>
          \A t \in DOMAIN match :
              /\ inner.val[t] <= snormsq.val[Take(t, K)] * onormsq.val[Drop(t, K)]
              /\ match[t] <=> PosProportional(SelfOp(Take(t, K)),
                                              OtherOp(Drop(t, K)))

\* C9, amended: the bound holds and its assertion never fails; inner and the
\* norms are those of the operators; match[i, j] is true exactly when the
\* two operators are linearly dependent, that is when one is a real or
\* complex multiple of the other: every positive multiple is flagged, and so
\* is a negative or complex multiple.
C9_MatchIsLinearDependence ==
    /\ m_err.check # "cauchy_schwarz"
    /\ m_pc \in {"matched", "returned"} =>
          \A t \in DOMAIN match :
              LET a == SelfOp(Take(t, K))
                  b == OtherOp(Drop(t, K))
              IN  /\ inner.val[t] = CAbsSq(VecInner(a, b))
                  /\ snormsq.val[Take(t, K)] = VecInner(a, a)[1]
                  /\ onormsq.val[Drop(t, K)] = VecInner(b, b)[1]
                  /\ inner.val[t]
                       <= snormsq.val[Take(t, K)] * onormsq.val[Drop(t, K)]
                  /\ match[t] <=> LinDependent(a, b)
                  /\ PosProportional(a, b) => match[t]

\* a measurement on the second of two sites has been matched against one on
\* both sites: the outcomes of other's first site are summed, some pairs
\* match and some do not
C9_Witness ==
    /\ m_pc = "returned"
    /\ OutDims(self) = <<1, 2>>
    /\ OutDims(other0) = <<2, 2>>
    /\ \E t \in DOMAIN match : match[t]
    /\ \E t \in DOMAIN match : ~match[t]

\* C10 as stated: the prefactor of a matching pair is the square root of
\* the ratio of the squared norms, so that self's operator is the prefactor
\* times other's; the prefactor of a non-matching pair is NaN; no matching
\* pair carries NaN and no non-matching pair a number.
C10_AsStated ==
    m_pc = "returned" =>
        \A t \in DOMAIN prefactors :
            LET a == SelfOp(Take(t, K))
                b == OtherOp(Drop(t, K))
                f == prefactors[t]
            IN  /\ match[t] =>
                      /\ f.kind = "rational"
                      /\ f.num * f.num * VecInner(b, b)[1]
                           = f.den * f.den * VecInner(a, a)[1]
                      /\ ScaledBy(a, f.num, f.den, b)
                /\ ~match[t] => f = NaN
                /\ f = NaN => ~match[t]

\* C10, amended: the prefactor of a matching pair is the (non-negative)
\* square root of the ratio of the squared norms, which is the modulus of
\* the factor between the operators: self's operator is the prefactor times
\* other's when the two are positive multiples of each other, and the
\* prefactor times other's up to a sign or phase otherwise; non-matching
\* pairs, and only they, carry NaN.
C10_PrefactorIsNormRatio ==
    m_pc = "returned" =>
        /\ DOMAIN prefactors = DOMAIN match
        /\ \A t \in DOMAIN prefactors :
            LET a == SelfOp(Take(t, K))
                b == OtherOp(Drop(t, K))
                f == prefactors[t]
            IN  /\ match[t] =>
                      /\ f.kind = "rational"
                      /\ f.num >= 0 /\ f.den > 0
                      /\ f.num * f.num * VecInner(b, b)[1]
                           = f.den * f.den * VecInner(a, a)[1]
                      /\ PosProportional(a, b) => ScaledBy(a, f.num, f.den, b)
                /\ ~match[t] => f = NaN
                /\ f = NaN => ~match[t]

\* a pair whose operators differ by the factor 2 has matched, with a
\* prefactor that is not 1, beside a pair that has not
C10_Witness ==
    /\ m_pc = "returned"
    /\ \E t \in DOMAIN prefactors :
          /\ match[t]
          /\ prefactors[t] = [kind |-> "rational", num |-> 1, den |-> 2]
    /\ \E t \in DOMAIN prefactors : prefactors[t] = NaN

-----------------------------------------------------------------------------
(* Properties of sampling, checked under SpecSample *)

\* The weight of all outcome tuples of the chain that begin with `prefix`
PrefixWeight(pr, prefix) ==
    SetSum(pr, {t \in DOMAIN pr : Take(t, Len(prefix)) = prefix})

\* C1: whenever sample() returns (method 'cond' or 'direct', any n_samples
\* and n_group), the batch has n_samples rows with one column per
\* non-singleton site, every entry [i, j] is below the j-th non-singleton
\* outcome dimension, and no entry is the sentinel 0xFF the batch was
\* initialised with.
C1_ReturnedBatchValid ==
    pc = "returned" =>
        /\ method \in {"cond", "direct"}
        /\ Len(out) = n_samples
        /\ \A r \in DOMAIN out :
              /\ Len(out[r]) = Len(nsoutdims(outdims))
              /\ \A j \in DOMAIN out[r] :
                    /\ out[r][j] < nsoutdims(outdims)[j]
                    /\ out[r][j] # Unfilled

\* sample() has returned a batch of MaxSamples rows for a chain with a
\* singleton site and a site of 255 outcomes, one entry being 254
C1_Witness ==
    /\ pc = "returned"
    /\ Len(out) = MaxSamples
    /\ Len(outdims) > Len(nsoutdims(outdims))
    /\ \E r \in DOMAIN out : \E j \in DOMAIN out[r] :
          out[r][j] = MaxOutcomeDim - 1

\* C2: in _sample_cond_single, at the start of every pass (and after the
\* last one) out_p is strictly positive and is the marginal probability of
\* the prefix out[:n_out] fixed so far; after the last pass it is the joint
\* probability of the drawn tuple, and the final check of out_p never fails.
\* (Before the first pass the prefix is empty and out_p is 1, which is the
\* marginal of the empty prefix when the chain sums to exactly 1.)
C2_OutPIsPrefixMarginal ==
    /\ pc = "single" =>
          LET n == Min(n_out, Len(nsoutdims(outdims)))
          IN  /\ RLt(RZero, out_p)
              /\ n = 0 => out_p = ROne
              /\ (n > 0 \/ SetSum(probab, DOMAIN probab) = Units) =>
                    out_p = Prob(PrefixWeight(probab, Take(out[i + 1], n)))
              /\ n = Len(nsoutdims(outdims)) => out_p = Prob(probab[out[i + 1]])
    /\ err.check # "out_p"

\* a pass in the middle of a sample: some sites fixed, some not, and the
\* prefix has probability below one
C2_Witness ==
    /\ pc = "single"
    /\ 0 < n_out
    /\ n_out < Len(nsoutdims(outdims))
    /\ RLt(out_p, ROne)
    /\ i = 1

\* C3: _sample_cond builds marginal_p once, before the first sample is
\* drawn: marginal_p[N] is the joint distribution, marginal_p[k] for k < N is
\* marginal_p[k+1] summed over the outcomes of its last site, which is the
\* distribution of the first k sites, and marginal_p[0] is the scalar 1 (to
\* within eps, exactly 1 when the chain sums to exactly 1); it stays so
\* while samples are drawn.
C3_MarginalsBuiltOnce ==
    LET shape == nsoutdims(outdims)
        N == Len(shape)
    IN  /\ builds <= 1
        /\ builds = 0 => /\ marginal_p = None
                         /\ drawn = 0
                         /\ pc \notin {"cond_loop", "single"}
        /\ builds = 1 =>
              /\ DOMAIN marginal_p = 0 .. N
              /\ marginal_p[N] = probab
              /\ \A k \in 0 .. N :
                    /\ DOMAIN marginal_p[k] = Cells(Take(shape, k))
                    /\ \A t \in Cells(Take(shape, k)) :
                          /\ marginal_p[k][t] = PrefixWeight(probab, t)
                          /\ k < N =>
                                marginal_p[k][t] =
                                    SetSum([v \in Vals(shape[k + 1]) |->
                                               marginal_p[k + 1][Append(t, v)]],
                                           Vals(shape[k + 1]))
              /\ pc # "raised" =>
                    RLe(RAbs(RSub(Prob(marginal_p[0][<<>>]), ROne)), Eps)
              /\ SetSum(probab, DOMAIN probab) = Units =>
                    Prob(marginal_p[0][<<>>]) = ROne

\* the second sample of a chain of three sites is being drawn from the
\* marginals built before the first
C3_Witness ==
    /\ builds = 1
    /\ drawn = 1
    /\ pc = "single"
    /\ n_out > 0
    /\ Len(nsoutdims(outdims)) = MaxSites

\* C4: when count_samples returns, counts has the shape nsoutdims,
\* counts[o] is the number of rows of the batch equal to o, and the counts
\* sum to the number of rows; and on a batch returned by sample() it always
\* returns (its check of the sum does not fail).
C4_CountsAreRowCounts ==
    /\ pc = "counted" =>
          /\ DOMAIN counts = AllIndex(nsoutdims(outdims))
          /\ \A o \in DOMAIN counts :
                counts[o] = Cardinality({r \in DOMAIN samples : samples[r] = o})
          /\ CountsSum(counts, nsoutdims(outdims)) = Len(samples)
    /\ (err.check = "counts_sum" => method = "none")

\* count_samples has counted a batch that sample() returned, with two equal
\* rows
C4_Witness ==
    /\ pc = "counted"
    /\ method \in {"cond", "direct"}
    /\ Len(samples) = 2
    /\ \E o \in DOMAIN counts : counts[o] = 2

\* C13 as stated: sample() with a method other than 'cond' or 'direct' ends
\* in a ValueError, not an assertion failure, for every state and
\* measurement chain, and returns no batch.
C13_AsStated ==
    (attempts = 1 /\ method \notin {"cond", "direct"}) =>
        /\ pc \in {"sample", "raised"}
        /\ pc = "raised" => err.type = "ValueError"

\* C13, amended: the same provided the probability chain sums to 1 within
\* eps and no outcome dimension exceeds 255, the two checks sample() makes
\* before it looks at method (a chain failing one of them ends the call in
\* an AssertionError whatever the method); the call repeated with a valid
\* method on the same measurement and state no longer fails on the method
\* and, when it returns, returns a batch of n_samples rows.
C13_InvalidMethodIsValueError ==
    /\ (attempts = 1 /\ method \notin {"cond", "direct"}) =>
          /\ pc \in {"sample", "raised"}
          /\ pc = "raised" =>
                IF SumOk(probab) /\ DimsOk(outdims)
                THEN err = [type |-> "ValueError", check |-> "method"]
                ELSE err.type = "AssertionError"
    /\ attempts > 1 =>
          /\ method \in {"cond", "direct"}
          /\ SumOk(probab) /\ DimsOk(outdims)
          /\ err.check # "method"
          /\ pc = "returned" => Len(out) = n_samples

\* the call with an unknown method has failed and the repeated call, with
\* method 'cond', has returned a batch
C13_Witness ==
    /\ attempts = 2
    /\ method = "cond"
    /\ pc = "returned"
    /\ n_samples > 0
    /\ Len(out) = n_samples

Ceil(n, g) == (n + g - 1) \div g

\* a pass of the loop of _sample_cond_single has been made
StepTaken == pc = "single" /\ pc' = "single" /\ n_out' # n_out

\* C14: conditional sampling of one sample over n non-singleton sites with
\* group size g makes exactly ceil(n / g) passes; pass number k fixes the
\* block of sites [k g, min(n, (k + 1) g)), in increasing order, the last
\* block being shorter when g does not divide n; a site is written once, in
\* its pass, and is Unfilled until then; a pass leaves the sites fixed
\* before it as they are and conditions on them alone.
C14_BlocksInOrder ==
    /\ [](pc = "single" =>
            LET n == Len(nsoutdims(outdims))
                row == out[i + 1]
            IN  /\ n_out % n_group = 0
                /\ n_out \div n_group <= Ceil(n, n_group)
                /\ n_out >= n => n_out \div n_group = Ceil(n, n_group)
                /\ n_out < n => n_out \div n_group < Ceil(n, n_group)
                /\ \A j \in 1 .. n :
                      IF j <= n_out THEN row[j] # Unfilled
                      ELSE row[j] = Unfilled
                /\ n_out < n =>
                      CondP(marginal_p, nsoutdims(outdims), row, n_out,
                            n_group, out_p)
                        = CondP(marginal_p, nsoutdims(outdims),
                                [j \in 1 .. n |->
                                    IF j <= n_out THEN row[j] ELSE 0],
                                n_out, n_group, out_p))
    /\ [][StepTaken =>
            LET n == Len(nsoutdims(outdims))
            IN  /\ n_out < n
                /\ n_out' = n_out + n_group
                /\ \A r \in DOMAIN out : r # i + 1 => out'[r] = out[r]
                /\ \A j \in 1 .. n :
                      IF j > n_out /\ j <= n_out + n_group
                      THEN /\ out[i + 1][j] = Unfilled
                           /\ out'[i + 1][j] < nsoutdims(outdims)[j]
                      ELSE out'[i + 1][j] = out[i + 1][j]]_vars

\* a sample over three sites with group size two is complete after two
\* passes, the second of which fixed the last site alone
C14_Witness ==
    /\ pc = "single"
    /\ Len(nsoutdims(outdims)) = 3
    /\ n_group = 2
    /\ n_out = 4
    /\ \A j \in 1 .. 3 : out[i + 1][j] # Unfilled

\* the rows _sample_cond_single can leave in out[i, :], from the row and
\* out_p reached after the passes up to nout: the passes of SingleStep and
\* the check of SingleExit, over every choice rng.choice can make
RECURSIVE CondRows(_, _, _, _, _, _)
CondRows(marg, shape, g, row, nout, outp) ==
    IF nout >= Len(shape)
    THEN IF Consistent(marg, shape, row, outp) THEN {row} ELSE {}
    ELSE LET pshape == StepShape(shape, nout, g)
             p0 == CondP(marg, shape, row, nout, g, outp)
             p == Clamp(p0)
         IN  IF ~NonNegWithinEps(p0) \/ ~SumsToOne(p) THEN {}
             ELSE UNION {CondRows(marg, shape, g,
                                  WriteSlice(row, nout, pshape, c), nout + g,
                                  NextOutP(outp, Flat(p, pshape, c)))
                           : c \in Choices(p, pshape)}

\* the outcome tuples method 'cond' can produce for a chain
CondSupport(pr, shape, g) ==
    LET marg == MarginalFamily(pr, shape)
    IN  IF RLe(RAbs(RSub(Prob(marg[0][<<>>]), ROne)), Eps)
        THEN CondRows(marg, shape, g, [j \in DOMAIN shape |-> Unfilled], 0,
                      ROne)
        ELSE {}

\* the outcome tuples method 'direct' can produce for a chain
DirectSupport(pr, shape) ==
    LET p0 == DirectP(pr)
        p == Clamp(p0)
    IN  IF ~NonNegWithinEps(p0) \/ ~SumsToOne(p) THEN {}
        ELSE {[j \in DOMAIN shape |-> ToUInt8(Unravel(c, shape)[j])]
                : c \in Choices(p, shape)}

\* the outcome tuples of strictly positive joint probability
Positive(pr) == {t \in DOMAIN pr : pr[t] > 0}

NonNegative(pr) == \A t \in DOMAIN pr : pr[t] >= 0

\* C15: on a non-negative chain normalized within eps, and for every
\* n_group, the outcome tuples method 'cond' can produce are those method
\* 'direct' can produce, namely the tuples of strictly positive joint
\* probability; on any chain neither method draws a tuple whose entry is
\* zero, or negative within eps and clamped; and the rows that sample()
\* writes are among the tuples of its method.
C15_SameSupport ==
    LET shape == nsoutdims(outdims)
    IN  /\ (pc = "sample" /\ DimsOk(outdims) /\ SumOk(probab)) =>
              /\ CondSupport(probab, shape, n_group) \subseteq Positive(probab)
              /\ DirectSupport(probab, shape) \subseteq Positive(probab)
              /\ NonNegative(probab) =>
                    /\ CondSupport(probab, shape, n_group) = Positive(probab)
                    /\ DirectSupport(probab, shape) = Positive(probab)
        /\ (pc \in {"check", "returned"} /\ method = "direct") =>
              \A r \in DOMAIN out : out[r] \in DirectSupport(probab, shape)
        /\ (pc \in {"cond_loop", "check", "returned"} /\ method = "cond") =>
              \A r \in 1 .. drawn :
                  out[r] \in CondSupport(probab, shape, n_group)

\* both methods have as support the two positive tuples of a chain over
\* two sites that has a zero entry; the batch holds both
C15_Witness ==
    /\ pc = "returned"
    /\ method = "cond"
    /\ n_group = 1
    /\ NonNegative(probab)
    /\ Len(nsoutdims(outdims)) = 2
    /\ Cardinality(Positive(probab)) = 2
    /\ CondSupport(probab, nsoutdims(outdims), n_group) = Positive(probab)
    /\ DirectSupport(probab, nsoutdims(outdims)) = Positive(probab)
    /\ {out[r] : r \in DOMAIN out} = Positive(probab)

====
